---------------------------- MODULE Spec2Model ----------------------------
(***************************************************************************)
(* Model of tf-code-scanner.py: one run of the pipeline                    *)
(*   run_terrascan -> validate scan_errors -> get_ai_review ->             *)
(*   save review -> pass/fail evaluation (save scan on fail) -> exit.      *)
(*                                                                         *)
(* JSON objects are TLA+ records whose DOMAIN is the set of keys present,  *)
(* JSON lists are sequences, Python strings are TLA+ strings, and text     *)
(* that the program builds (the summary) is a sequence of string tokens    *)
(* whose concatenation is the text (<<>> is the empty text).               *)
(*                                                                         *)
(* Spec is one run.  SpecExitPair and SpecSummaryPair are two runs, one    *)
(* after the other, in the same environment except for one answer (the     *)
(* scanner's exit code, the summarization outcome): they serve the         *)
(* properties that compare two runs.                                       *)
(***************************************************************************)
EXTENDS Integers, Sequences, FiniteSets, TLC

VARIABLES
    pc,                 \* position of the run in main()
    bucket,             \* the --bucket option (None when not given)
    scanner_exit,       \* exit code of the terrascan subprocess (never read)
    scan_results,       \* main: scan_results, the parsed ScanDocument
    condensed_findings, \* get_ai_review: condensed_findings embedded in the prompt
    response_body,      \* get_ai_review: response_body, the parsed reply
    ai_summary,         \* main: ai_summary, the SummaryText
    now,                \* main: now, the RunTimestamp
    storage,            \* files / objects written so far
    effects,            \* external calls made so far, in order
    console,            \* lines printed so far
    exit_code,          \* process exit status (NotExited while running)
    env,                \* what the environment has answered in this run
    first_run           \* the run before this one, where two runs are compared

vars == <<pc, bucket, scanner_exit, scan_results, condensed_findings,
          response_body, ai_summary, now, storage, effects, console, exit_code,
          env, first_run>>

---------------------------------------------------------------------------
(* Bounds of the model.                                                    *)

\* longest violations list the scanner emits in the model
MaxViolations == 11
\* number of distinct clock readings datetime.now() may return
MaxTime == 2

(* Program constants.                                                      *)

\* violations[:10]
ViolationLimit == 10

\* Python's None (the errMsg / iac_type / bucket of the model are never this string)
None == "None"
\* {} : the JSON object without keys
EmptyObj == [k \in {} |-> 0]
NotExited == -1

\* "AI review generation failed."
FallbackText == <<"AI review generation failed.">>
\* "No violations found": a str that the code may measure and slice, so the
\* sequence of its characters
NoViolationsMarker ==
    <<"N", "o", " ", "v", "i", "o", "l", "a", "t", "i", "o", "n", "s", " ",
      "f", "o", "u", "n", "d">>

\* dict.get(key, default)
Get(obj, key, default) == IF key \in DOMAIN obj THEN obj[key] ELSE default

\* truthiness of a Python str-or-None value
Truthy(v) == v # None /\ v # ""

\* a Python str as text
Str(s) == IF s = "" THEN <<>> ELSE <<s>>

---------------------------------------------------------------------------
(* Inputs: what the scanner may print.                                     *)

TfErr   == [iac_type |-> "terraform", errMsg |-> "no tf files"]
TfEmpty == [iac_type |-> "terraform", errMsg |-> ""]
TfNoMsg == [iac_type |-> "terraform"]
HelmErr == [iac_type |-> "helm", errMsg |-> "no helm charts"]

ScanErrorLists ==
    { <<>>, <<TfErr>>, <<HelmErr>>, <<HelmErr, TfErr>>,
      <<TfEmpty>>, <<TfNoMsg, TfErr>> }

ScanSummaries ==
    { EmptyObj,
      [violated_policies |-> 0],
      [violated_policies |-> 2, low |-> 2] }

\* results: absent keys are possible (scan_errors, scan_summary)
ResultsObjects ==
    { EmptyObj }
    \cup { [scan_summary |-> s] : s \in ScanSummaries }
    \cup { [scan_errors |-> e, scan_summary |-> s] :
               e \in ScanErrorLists, s \in ScanSummaries }

\* a violations list of n findings, in scanner order (not sorted by id)
Finding(n, i) == [rule_id |-> n + 1 - i]
ViolationList(n) == [i \in 1..n |-> Finding(n, i)]

\* the violations field, where present
ViolationLists == { ViolationList(n) : n \in 0..MaxViolations }

\* the top-level keys other than results
TopLevelParts ==
    { EmptyObj }
    \cup { [violations |-> v] : v \in ViolationLists }
    \cup { [violations |-> ViolationList(n), scan_summary |-> [violated_policies |-> 7]] :
               n \in {0, 2} }

\* the two records joined (their key sets are disjoint)
Merge(a, b) ==
    [k \in DOMAIN a \cup DOMAIN b |-> IF k \in DOMAIN a THEN a[k] ELSE b[k]]

ScanDocuments ==
    TopLevelParts
    \cup { Merge([results |-> r], t) : r \in ResultsObjects, t \in TopLevelParts }

ScannerExitCodes == {0, 3}
Buckets == {None, "my-bucket"}
\* readings of datetime.now()
Times == 1..MaxTime

(* Inputs: what the summarization service may reply.  A value of a reply   *)
(* key is tagged: [list |-> <<...>>] is a JSON list of blocks,             *)
(* [obj |-> [message |-> v]] a nested JSON object.                         *)

BlocksX  == [list |-> << [text |-> "X"] >>]
BlocksXW == [list |-> << [text |-> "X"], [text |-> "W"] >>]
BlocksY  == [list |-> << [text |-> "Y"] >>]
NoBlocks == [list |-> << >>]
ImageBlocks == [list |-> << [type |-> "image"] >>]
NovaOutput == [obj |-> [message |-> [list |-> << [text |-> "Z"] >>]]]

Replies ==
    { [content |-> BlocksX],
      [content |-> BlocksXW, stopReason |-> "end_turn"],
      [output |-> BlocksY],
      [content |-> BlocksX, output |-> BlocksY],
      [content |-> NoBlocks, output |-> BlocksY],
      [content |-> NoBlocks],
      [content |-> ImageBlocks],
      [output |-> NovaOutput],
      [stopReason |-> "end_turn"],
      EmptyObj }

---------------------------------------------------------------------------
(* main, lines 86-96: what main reads from the ScanDocument.               *)

Results(doc) == Get(doc, "results", EmptyObj)
ScanErrors(doc) == Get(Results(doc), "scan_errors", << >>)
ScanSummary(doc) == Get(Results(doc), "scan_summary", EmptyObj)
ViolatedPolicies(doc) == Get(ScanSummary(doc), "violated_policies", 0)

\* the for loop: errMsg of the first entry whose iac_type is "terraform"
TerraformError(scan_errors) ==
    LET hits == { i \in 1..Len(scan_errors) :
                      Get(scan_errors[i], "iac_type", None) = "terraform" }
    IN  IF hits = {} THEN None
        ELSE LET first == CHOOSE i \in hits : \A j \in hits : i <= j
             IN  Get(scan_errors[first], "errMsg", None)

\* if terraform_error:
ValidationRejects(doc) == Truthy(TerraformError(ScanErrors(doc)))

\* faulty variant: the count read from the top level of the document
IsFailTopLevel(doc) ==
    Get(Get(doc, "scan_summary", EmptyObj), "violated_policies", 0) > 0

\* faulty variant: violated_policies >= 0
IsFailInclusive(doc) == ViolatedPolicies(doc) >= 0

\* if violated_policies > 0:
IsFail(doc) == ViolatedPolicies(doc) > 0

---------------------------------------------------------------------------
(* get_ai_review, lines 33-43: the condensation.  The violations value of  *)
(* the result is tagged: [list |-> <<...>>] or [str |-> marker].           *)

\* faulty variant: violations[-10:]
TruncateTail(violations) ==
    IF Len(violations) > ViolationLimit
    THEN SubSeq(violations, Len(violations) - ViolationLimit + 1, Len(violations))
    ELSE violations

Truncate(violations) ==
    IF Len(violations) > 0 /\ Len(violations) > ViolationLimit
    THEN SubSeq(violations, 1, ViolationLimit)
    ELSE violations

Condense(findings) ==
    LET scan_summary == Get(findings, "scan_summary", EmptyObj)
        violations == Truncate(Get(findings, "violations", << >>))
    IN  [scan_summary |-> scan_summary,
         violations |-> IF Len(violations) > 0
                        THEN [list |-> violations]
                        ELSE [str |-> NoViolationsMarker]]

\* the same lines 33-43 applied to findings whose violations value is
\* tagged, a list or a str (a condensed result): len() and [:10] work on
\* both, and a str stays a str
CondenseAgain(findings) ==
    LET scan_summary == Get(findings, "scan_summary", EmptyObj)
        value == Get(findings, "violations", [list |-> << >>])
        isList == "list" \in DOMAIN value
        violations == Truncate(IF isList THEN value.list ELSE value.str)
    IN  [scan_summary |-> scan_summary,
         violations |-> IF Len(violations) > 0
                        THEN (IF isList THEN [list |-> violations]
                                        ELSE [str |-> violations])
                        ELSE [str |-> NoViolationsMarker]]

---------------------------------------------------------------------------
(* get_ai_review, lines 63-76: normalization of the reply.                 *)

\* json.dumps of a reply value (indentation left out)
RECURSIVE DumpsBlocks(_)
DumpsBlocks(blocks) ==
    IF Len(blocks) = 0 THEN << >>
    ELSE LET b == Head(blocks)
             one == <<"{">>
                    \o (IF "text" \in DOMAIN b
                        THEN <<"\"text\": \"">> \o Str(b.text) \o <<"\"">> ELSE << >>)
                    \o (IF "type" \in DOMAIN b
                        THEN <<"\"type\": \"">> \o Str(b.type) \o <<"\"">> ELSE << >>)
                    \o <<"}">>
         IN  one \o (IF Len(blocks) > 1 THEN <<", ">> ELSE << >>)
                 \o DumpsBlocks(Tail(blocks))

RECURSIVE DumpsValue(_)
DumpsValue(v) ==
    IF "list" \in DOMAIN v
    THEN <<"[">> \o DumpsBlocks(v.list) \o <<"]">>
    ELSE <<"{\"message\": ">> \o DumpsValue(v.obj.message) \o <<"}">>

\* json.dumps(response_body, indent=2)
JsonDumps(reply) ==
    LET field(k) == IF k \in DOMAIN reply
                    THEN << <<"\"", k, "\": ">> \o
                            (IF k = "stopReason"
                             THEN <<"\"">> \o Str(reply[k]) \o <<"\"">>
                             ELSE DumpsValue(reply[k])) >>
                    ELSE << >>
        fields == field("content") \o field("output") \o field("stopReason")
        RECURSIVE join(_)
        join(fs) == IF Len(fs) = 0 THEN << >>
                    ELSE Head(fs) \o (IF Len(fs) > 1 THEN <<", ">> ELSE << >>)
                                  \o join(Tail(fs))
    IN  <<"{">> \o join(fields) \o <<"}">>

\* value[0]['text']: raises on an empty list (IndexError), on an object
\* (KeyError 0) and on a first block without text (KeyError 'text')
FirstText(value) ==
    IF "list" \in DOMAIN value /\ Len(value.list) > 0
       /\ "text" \in DOMAIN value.list[1]
    THEN [raised |-> FALSE, text |-> Str(value.list[1].text)]
    ELSE [raised |-> TRUE, text |-> << >>]

\* the if / elif / else of lines 67-73
Normalize(reply) ==
    IF "content" \in DOMAIN reply THEN FirstText(reply.content)
    ELSE IF "output" \in DOMAIN reply THEN FirstText(reply.output)
    ELSE [raised |-> FALSE, text |-> JsonDumps(reply)]

\* the value get_ai_review returns for a reply that was received and parsed
SummaryOf(reply) ==
    IF Normalize(reply).raised THEN FallbackText ELSE Normalize(reply).text

---------------------------------------------------------------------------
(* Artifact names and places (lines 107-120, 127, 139-146).                *)

\* now.strftime('%Y%m%d_%H%M%S') and now.strftime('%Y/%m/%d') of a reading:
\* two readings a day
Stamp(t) == [ymd |-> (t + 1) \div 2, hms |-> t % 2]
Ymd(t) == (t + 1) \div 2

ReviewName(t) == [prefix |-> "review", stamp |-> Stamp(t), ext |-> "md"]
ScanName(t) == [prefix |-> "scan", stamp |-> Stamp(t), ext |-> "json"]

\* where an artifact goes: if bucket: s3://bucket/<partition>/Y/m/d/<name>
\* else <cwd>/<name>
Place(b, partition, t, name) ==
    IF Truthy(b)
    THEN [bucket |-> b, folder |-> [partition |-> partition, ymd |-> Ymd(t)],
          name |-> name]
    ELSE [dir |-> "cwd", name |-> name]

ReviewArtifact(b, t, summary) ==
    [place |-> Place(b, "reviews", t, ReviewName(t)),
     body |-> [text |-> summary], complete |-> TRUE]

\* json_output = json.dumps(scan_results, indent=2): the body is the text
\* that parses back to the document
ScanArtifact(b, t, doc) ==
    [place |-> Place(b, "scans", t, ScanName(t)),
     body |-> [json |-> doc], complete |-> TRUE]

\* what a write that raised may leave behind: nothing, or (local file only,
\* opened with 'w' before the write raised) a file without its content
Leftovers(b, artifact) ==
    { {} } \cup
    (IF Truthy(b) THEN {}
     ELSE { { [place |-> artifact.place, body |-> [text |-> << >>],
               complete |-> FALSE] } })

Line(tag, text) == [tag |-> tag, text |-> text]
Effect(op, ok) == [op |-> op, ok |-> ok]

\* The environment of a run: the scanner process, the summarization
\* service, the clock and the storage.  Each answer it gives is recorded in
\* env under the key of the call; where a second run is compared with a
\* first one, the answers it has in common with the first are fixed, and
\* the answers in which it differs from the first are other than there.
Allowed(key, answer) ==
    IF "fixed" \notin DOMAIN first_run THEN TRUE
    ELSE IF key \in DOMAIN first_run.fixed THEN first_run.fixed[key] = answer
    ELSE IF key \in DOMAIN first_run.differs THEN first_run.differs[key] # answer
    ELSE TRUE

Answers(given) ==
    /\ \A key \in DOMAIN given : Allowed(key, given[key])
    /\ env' = Merge(given, env)

\* an exception nobody catches: traceback, exit status 1
Crash ==
    /\ pc' = "Crashed"
    /\ exit_code' = 1

---------------------------------------------------------------------------
Init ==
    /\ pc = "Start"
    /\ bucket \in Buckets
    /\ scanner_exit = NotExited
    /\ scan_results = EmptyObj
    /\ condensed_findings = EmptyObj
    /\ response_body = EmptyObj
    /\ ai_summary = << >>
    /\ now = 0
    /\ storage = {}
    /\ effects = << >>
    /\ console = << >>
    /\ exit_code = NotExited
    /\ env = EmptyObj
    /\ first_run = EmptyObj

(* run_terrascan, lines 15-26 (called at line 83).                         *)

\* faulty variant: the except branch prints and returns an empty document
ScannerLaunchContinues ==
    /\ pc = "Start"
    /\ pc' = "ScanRan"
    /\ effects' = Append(effects, Effect("scanner", FALSE))
    /\ console' = console \o << Line("step1", << >>), Line("error_terrascan", << >>) >>
    /\ Answers([scanner |-> [kind |-> "raises"]])
    /\ UNCHANGED <<bucket, scanner_exit, scan_results, condensed_findings,
                   response_body, ai_summary, now, storage, exit_code,
                   first_run>>

\* subprocess.run raises (no terrascan executable): except, sys.exit(1)
ScannerLaunchFails ==
    /\ pc = "Start"
    /\ pc' = "InvocationError"
    /\ exit_code' = 1
    /\ effects' = Append(effects, Effect("scanner", FALSE))
    /\ console' = console \o << Line("step1", << >>), Line("error_terrascan", << >>) >>
    /\ Answers([scanner |-> [kind |-> "raises"]])
    /\ UNCHANGED <<bucket, scanner_exit, scan_results, condensed_findings,
                   response_body, ai_summary, now, storage, first_run>>

\* the scanner ran; json.loads(result.stdout) raises: except, sys.exit(1)
ScannerOutputUnparsable ==
    /\ pc = "Start"
    /\ \E c \in ScannerExitCodes :
         /\ scanner_exit' = c
         /\ Answers([scanner |-> [kind |-> "garbage"], exit |-> c])
    /\ pc' = "InvocationError"
    /\ exit_code' = 1
    /\ effects' = Append(effects, Effect("scanner", TRUE))
    /\ console' = console \o << Line("step1", << >>), Line("error_terrascan", << >>) >>
    /\ UNCHANGED <<bucket, scan_results, condensed_findings, response_body,
                   ai_summary, now, storage, first_run>>

\* the output parses to a JSON value that is no object (a list, a string):
\* scan_results.get at line 86 raises AttributeError, which nobody catches
ScannerOutputNotObject ==
    /\ pc = "Start"
    /\ \E c \in ScannerExitCodes :
         /\ scanner_exit' = c
         /\ Answers([scanner |-> [kind |-> "scalar"], exit |-> c])
    /\ Crash
    /\ effects' = Append(effects, Effect("scanner", TRUE))
    /\ console' = console \o << Line("step1", << >>),
                                Line("traceback", <<"scan_results.get">>) >>
    /\ UNCHANGED <<bucket, scan_results, condensed_findings, response_body,
                   ai_summary, now, storage, first_run>>

\* faulty variant: subprocess.run(check=True), a non-zero exit code raises
ScannerOutputParsedChecked ==
    /\ pc = "Start"
    /\ \E c \in ScannerExitCodes, doc \in ScanDocuments :
         /\ scanner_exit' = c
         /\ Answers([scanner |-> [kind |-> "object", json |-> doc], exit |-> c])
         /\ IF c = 0
            THEN /\ scan_results' = doc
                 /\ pc' = "ScanRan"
                 /\ console' = Append(console, Line("step1", << >>))
                 /\ exit_code' = exit_code
            ELSE /\ scan_results' = scan_results
                 /\ pc' = "InvocationError"
                 /\ console' = console \o << Line("step1", << >>),
                                             Line("error_terrascan", << >>) >>
                 /\ exit_code' = 1
    /\ effects' = Append(effects, Effect("scanner", TRUE))
    /\ UNCHANGED <<bucket, condensed_findings, response_body, ai_summary,
                   now, storage, first_run>>

\* the output parses to an object: run_terrascan returns it
ScannerOutputParsed ==
    /\ pc = "Start"
    /\ \E c \in ScannerExitCodes, doc \in ScanDocuments :
         /\ scanner_exit' = c
         /\ scan_results' = doc
         /\ Answers([scanner |-> [kind |-> "object", json |-> doc], exit |-> c])
    /\ pc' = "ScanRan"
    /\ effects' = Append(effects, Effect("scanner", TRUE))
    /\ console' = Append(console, Line("step1", << >>))
    /\ UNCHANGED <<bucket, condensed_findings, response_body, ai_summary,
                   now, storage, exit_code, first_run>>

(* main, lines 86-103: validation.                                         *)

ValidateRejects ==
    /\ pc = "ScanRan"
    /\ ValidationRejects(scan_results)
    /\ pc' = "ConfigError"
    /\ exit_code' = 1
    /\ console' = Append(console,
                         Line("error", Str(TerraformError(ScanErrors(scan_results)))))
    /\ UNCHANGED <<bucket, scanner_exit, scan_results, condensed_findings,
                   response_body, ai_summary, now, storage, effects, env,
                   first_run>>

ValidatePasses ==
    /\ pc = "ScanRan"
    /\ ~ValidationRejects(scan_results)
    /\ pc' = "Validated"
    /\ console' = Append(console, Line("step2", << >>))
    /\ UNCHANGED <<bucket, scanner_exit, scan_results, condensed_findings,
                   response_body, ai_summary, now, storage, effects,
                   exit_code, env, first_run>>

(* get_ai_review, lines 28-76 (called with scan_results at line 104).      *)

\* boto3.client(service_name='bedrock-runtime') raises (line 30 is outside
\* the try): nobody catches it
BedrockClientFails ==
    /\ pc = "Validated"
    /\ Crash
    /\ console' = Append(console, Line("traceback", <<"boto3.client">>))
    /\ Answers([client |-> "raises"])
    /\ UNCHANGED <<bucket, scanner_exit, scan_results, condensed_findings,
                   response_body, ai_summary, now, storage, effects,
                   first_run>>

\* faulty variant: the violations are cut in place, in scan_results itself
BuildRequestInPlace ==
    /\ pc = "Validated"
    /\ Answers([client |-> "ok"])
    /\ pc' = "RequestBuilt"
    /\ condensed_findings' = Condense(scan_results)
    /\ scan_results' =
           [k \in DOMAIN scan_results |->
               IF k = "violations" THEN Truncate(scan_results[k])
               ELSE scan_results[k]]
    /\ UNCHANGED <<bucket, scanner_exit, response_body, ai_summary, now,
                   storage, effects, console, exit_code, first_run>>

\* lines 30-55: the client, the condensed findings, the prompt, the body
BuildRequest ==
    /\ pc = "Validated"
    /\ pc' = "RequestBuilt"
    /\ condensed_findings' = Condense(scan_results)
    /\ Answers([client |-> "ok"])
    /\ UNCHANGED <<bucket, scanner_exit, scan_results, response_body,
                   ai_summary, now, storage, effects, console, exit_code,
                   first_run>>

\* faulty variant: the failed call is made again
InvokeModelRetries ==
    /\ pc = "RequestBuilt"
    /\ Len(effects) < 4
    /\ effects' = Append(effects, Effect("summarize", FALSE))
    /\ console' = Append(console, Line("error_ai", << >>))
    /\ Answers([response |-> [kind |-> "raises"]])
    /\ UNCHANGED <<pc, bucket, scanner_exit, scan_results,
                   condensed_findings, response_body, ai_summary, now,
                   storage, exit_code, first_run>>

\* bedrock.invoke_model raises: except, the fallback text
InvokeModelFails ==
    /\ pc = "RequestBuilt"
    /\ pc' = "Summarized"
    /\ ai_summary' = FallbackText
    /\ effects' = Append(effects, Effect("summarize", FALSE))
    /\ console' = Append(console, Line("error_ai", << >>))
    /\ Answers([response |-> [kind |-> "raises"]])
    /\ UNCHANGED <<bucket, scanner_exit, scan_results, condensed_findings,
                   response_body, now, storage, exit_code, first_run>>

\* the call returns, but response.get('body').read() or json.loads raises
InvokeModelUnreadable ==
    /\ pc = "RequestBuilt"
    /\ pc' = "Summarized"
    /\ ai_summary' = FallbackText
    /\ effects' = Append(effects, Effect("summarize", TRUE))
    /\ console' = Append(console, Line("error_ai", << >>))
    /\ Answers([response |-> [kind |-> "unreadable"]])
    /\ UNCHANGED <<bucket, scanner_exit, scan_results, condensed_findings,
                   response_body, now, storage, exit_code, first_run>>

\* the call returns a reply that parses: lines 63-76
InvokeModelReplies ==
    /\ pc = "RequestBuilt"
    /\ \E reply \in Replies :
         /\ Answers([response |-> [kind |-> "json", body |-> reply]])
         /\ response_body' = reply
         /\ ai_summary' = SummaryOf(reply)
         /\ console' = console \o << Line("ai_response", JsonDumps(reply)) >>
                         \o (IF Normalize(reply).raised
                             THEN << Line("error_ai", << >>) >> ELSE << >>)
    /\ pc' = "Summarized"
    /\ effects' = Append(effects, Effect("summarize", TRUE))
    /\ UNCHANGED <<bucket, scanner_exit, scan_results, condensed_findings,
                   now, storage, exit_code, first_run>>

(* main, lines 107-124: the review artifact.                               *)

SaveReview ==
    /\ pc = "Summarized"
    /\ \E t \in Times :
         /\ now' = t
         /\ storage' = storage \cup {ReviewArtifact(bucket, t, ai_summary)}
         /\ Answers([clock |-> t, review_write |-> [ok |-> TRUE]])
    /\ pc' = "ReviewPersisted"
    /\ effects' = Append(effects, Effect("review_write", TRUE))
    /\ console' = Append(console, Line("review_saved", << >>))
    /\ UNCHANGED <<bucket, scanner_exit, scan_results, condensed_findings,
                   response_body, ai_summary, exit_code, first_run>>

\* faulty variant: the failed write is caught and logged, and the run goes on
SaveReviewSwallows ==
    /\ pc = "Summarized"
    /\ \E t \in Times :
         /\ now' = t
         /\ \E left \in Leftovers(bucket, ReviewArtifact(bucket, t, ai_summary)) :
              /\ storage' = storage \cup left
              /\ Answers([clock |-> t,
                          review_write |-> [ok |-> FALSE, left |-> left]])
    /\ pc' = "ReviewPersisted"
    /\ effects' = Append(effects, Effect("review_write", FALSE))
    /\ console' = Append(console, Line("error_write", << >>))
    /\ UNCHANGED <<bucket, scanner_exit, scan_results, condensed_findings,
                   response_body, ai_summary, exit_code, first_run>>

\* boto3.client('s3'), put_object, open or write raises: nobody catches it
SaveReviewFails ==
    /\ pc = "Summarized"
    /\ \E t \in Times :
         /\ now' = t
         /\ \E left \in Leftovers(bucket, ReviewArtifact(bucket, t, ai_summary)) :
              /\ storage' = storage \cup left
              /\ Answers([clock |-> t,
                          review_write |-> [ok |-> FALSE, left |-> left]])
    /\ Crash
    /\ effects' = Append(effects, Effect("review_write", FALSE))
    /\ console' = Append(console, Line("traceback", <<"review write">>))
    /\ UNCHANGED <<bucket, scanner_exit, scan_results, condensed_findings,
                   response_body, ai_summary, first_run>>

(* main, lines 127-154: final output and exit.                             *)

EvaluatePass ==
    /\ pc = "ReviewPersisted"
    /\ ~IsFail(scan_results)
    /\ pc' = "Passed"
    /\ exit_code' = 0
    /\ console' = console \o << Line("final_review", ai_summary),
                                Line("pass", << >>) >>
    /\ UNCHANGED <<bucket, scanner_exit, scan_results, condensed_findings,
                   response_body, ai_summary, now, storage, effects, env,
                   first_run>>

\* faulty variant: the scan file name is built from a second datetime.now()
EvaluateFailRereadsClock ==
    /\ pc = "ReviewPersisted"
    /\ IsFail(scan_results)
    /\ \E t \in Times :
         /\ storage' = storage \cup {ScanArtifact(bucket, t, scan_results)}
         /\ Answers([clock_again |-> t, scan_write |-> [ok |-> TRUE]])
    /\ pc' = "Failed"
    /\ exit_code' = 1
    /\ effects' = Append(effects, Effect("scan_write", TRUE))
    /\ console' = console \o << Line("final_review", ai_summary),
                                Line("fail", << >>), Line("scan_saved", << >>) >>
    /\ UNCHANGED <<bucket, scanner_exit, scan_results, condensed_findings,
                   response_body, ai_summary, now, first_run>>

EvaluateFail ==
    /\ pc = "ReviewPersisted"
    /\ IsFail(scan_results)
    /\ storage' = storage \cup {ScanArtifact(bucket, now, scan_results)}
    /\ pc' = "Failed"
    /\ exit_code' = 1
    /\ effects' = Append(effects, Effect("scan_write", TRUE))
    /\ console' = console \o << Line("final_review", ai_summary),
                                Line("fail", << >>), Line("scan_saved", << >>) >>
    /\ Answers([scan_write |-> [ok |-> TRUE]])
    /\ UNCHANGED <<bucket, scanner_exit, scan_results, condensed_findings,
                   response_body, ai_summary, now, first_run>>

\* the scan write raises: nobody catches it
EvaluateFailWriteFails ==
    /\ pc = "ReviewPersisted"
    /\ IsFail(scan_results)
    /\ \E left \in Leftovers(bucket, ScanArtifact(bucket, now, scan_results)) :
         /\ storage' = storage \cup left
         /\ Answers([scan_write |-> [ok |-> FALSE, left |-> left]])
    /\ Crash
    /\ effects' = Append(effects, Effect("scan_write", FALSE))
    /\ console' = console \o << Line("final_review", ai_summary),
                                Line("fail", << >>),
                                Line("traceback", <<"scan write">>) >>
    /\ UNCHANGED <<bucket, scanner_exit, scan_results, condensed_findings,
                   response_body, ai_summary, now, first_run>>

Next ==
    \/ ScannerLaunchFails
    \/ ScannerOutputUnparsable
    \/ ScannerOutputNotObject
    \/ ScannerOutputParsed
    \/ ValidateRejects
    \/ ValidatePasses
    \/ BedrockClientFails
    \/ BuildRequest
    \/ InvokeModelFails
    \/ InvokeModelUnreadable
    \/ InvokeModelReplies
    \/ SaveReview
    \/ SaveReviewFails
    \/ EvaluatePass
    \/ EvaluateFail
    \/ EvaluateFailWriteFails

Spec == Init /\ [][Next]_vars

---------------------------------------------------------------------------
(* Two runs, lines 156-157: main() is called once per process; a second    *)
(* process is started after the first has exited.                          *)

\* the answers other than those under the keys given
Without(answers, keys) == [k \in DOMAIN answers \ keys |-> answers[k]]

\* the kinds of artifact among the files: review, scan
ArtifactKinds(files) == { a.place.name.prefix : a \in { f \in files : f.complete } }

\* a new process: the state of Init, with the same --bucket option
StartAgain ==
    /\ pc' = "Start"
    /\ scanner_exit' = NotExited
    /\ scan_results' = EmptyObj
    /\ condensed_findings' = EmptyObj
    /\ response_body' = EmptyObj
    /\ ai_summary' = << >>
    /\ now' = 0
    /\ storage' = {}
    /\ effects' = << >>
    /\ console' = << >>
    /\ exit_code' = NotExited
    /\ env' = EmptyObj
    /\ UNCHANGED bucket

\* the answers under the keys given
Only(answers, keys) == [k \in DOMAIN answers \cap keys |-> answers[k]]

\* the second run has the environment of the first, except that the scanner
\* ends with another exit code
RunAgainOtherExit ==
    /\ pc \in {"Failed", "Passed", "InvocationError", "ConfigError", "Crashed"}
    /\ DOMAIN first_run = {}
    /\ first_run' = [fixed |-> Without(env, {"exit"}),
                     differs |-> Only(env, {"exit"}),
                     scanner_exit |-> scanner_exit,
                     pc |-> pc, exit_code |-> exit_code, storage |-> storage,
                     effects |-> effects, console |-> console]
    /\ StartAgain

\* the second run has the environment of the first, except that the
\* summarization (client set-up and call) may end otherwise
RunAgainOtherSummary ==
    /\ pc \in {"Failed", "Passed", "InvocationError", "ConfigError", "Crashed"}
    /\ DOMAIN first_run = {}
    /\ first_run' = [fixed |-> Without(env, {"client", "response"}),
                     differs |-> EmptyObj,
                     exit_code |-> exit_code,
                     kinds |-> ArtifactKinds(storage)]
    /\ StartAgain

NextExitPair == Next \/ RunAgainOtherExit
SpecExitPair == Init /\ [][NextExitPair]_vars

NextSummaryPair == Next \/ RunAgainOtherSummary
SpecSummaryPair == Init /\ [][NextSummaryPair]_vars

---------------------------------------------------------------------------
(* Vocabulary of the properties.                                           *)

Range(seq) == { seq[i] : i \in 1..Len(seq) }
Printed(tag) == \E l \in Range(console) : l.tag = tag
Attempted(op) == \E e \in Range(effects) : e.op = op

Terminal == {"Failed", "Passed", "InvocationError", "ConfigError", "Crashed"}
Exited == pc \in Terminal

\* the run holds a ScanDocument that states its violation count
CountStated ==
    /\ pc \notin {"Start", "InvocationError"}
    /\ "violated_policies" \in DOMAIN ScanSummary(scan_results)

ReviewPersisted == ReviewArtifact(bucket, now, ai_summary) \in storage
ScanPersisted == ScanArtifact(bucket, now, scan_results) \in storage
\* any file or object named scan_*, complete or not
ScanFiles == { a \in storage : a.place.name.prefix = "scan" }

\* C1 (as stated): for every ScanDocument with violated_policies > 0 the run
\* exits with code 1 having persisted both the review and the scan artifact.
C1_ExitOneWithBothArtifacts ==
    (CountStated /\ ViolatedPolicies(scan_results) > 0 /\ Exited)
        => (exit_code = 1 /\ ReviewPersisted /\ ScanPersisted)

\* C1 (amended): with violated_policies > 0 the run exits with code 1 and
\* never passes; when it exits from the fail branch of the evaluation both
\* artifacts are persisted; otherwise a fatal error (terraform scan error or
\* an uncaught exception) ended it and no complete scan artifact exists.
C1_FailBranchPersistsBoth ==
    (CountStated /\ ViolatedPolicies(scan_results) > 0)
        => /\ pc # "Passed"
           /\ Exited => exit_code = 1
           /\ pc = "Failed" => (ReviewPersisted /\ ScanPersisted)
           /\ (Exited /\ pc # "Failed")
                  => (pc \in {"ConfigError", "Crashed"} /\ ~ScanPersisted)

C1_Witness ==
    /\ CountStated /\ ViolatedPolicies(scan_results) > 0
    /\ pc = "Failed" /\ exit_code = 1
    /\ ReviewPersisted /\ ScanPersisted

\* C2 (as stated): for every ScanDocument with violated_policies = 0 the run
\* exits with code 0 and no scan artifact is ever persisted.
C2_ExitZeroNoScanArtifact ==
    (CountStated /\ ViolatedPolicies(scan_results) = 0)
        => /\ Exited => exit_code = 0
           /\ ScanFiles = {}

\* C2 (amended): with violated_policies = 0 no scan artifact is ever written
\* and the run never takes the fail branch; it exits 0 when it reaches the
\* pass/fail evaluation, and exits non-zero only when a fatal error
\* (terraform scan error or an uncaught exception) ended it before.
C2_PassBranchNoScanArtifact ==
    (CountStated /\ ViolatedPolicies(scan_results) = 0)
        => /\ ScanFiles = {}
           /\ ~Attempted("scan_write")
           /\ pc # "Failed"
           /\ pc = "Passed" => (exit_code = 0 /\ ReviewPersisted)
           /\ (Exited /\ pc # "Passed")
                  => (pc \in {"ConfigError", "Crashed"} /\ exit_code = 1)

C2_Witness ==
    /\ CountStated /\ ViolatedPolicies(scan_results) = 0
    /\ pc = "Passed" /\ exit_code = 0
    /\ ReviewPersisted /\ ScanFiles = {}

HasTerraformEntry(doc) ==
    \E e \in Range(ScanErrors(doc)) : Get(e, "iac_type", None) = "terraform"

\* C3: when scan_errors holds an entry with iac_type "terraform" (whatever
\* its errMsg and position) the run exits non-zero, the summarization
\* service is never called and no artifact is persisted.
C3_TerraformEntryAborts ==
    (pc \notin {"Start", "InvocationError"} /\ HasTerraformEntry(scan_results))
        => /\ ~Attempted("summarize")
           /\ storage = {}
           /\ Exited => exit_code # 0

\* a failure of the summarization stage: the client set-up, the call, or
\* the reading of the reply
ClientSetupFailed == Line("traceback", <<"boto3.client">>) \in Range(console)
SummarizationFailed == ClientSetupFailed \/ Printed("error_ai")

\* C4: any failure while invoking the summarization service is non-fatal:
\* SummaryText is the fallback text and the run goes on to the review write
\* and the evaluation.
C4_SummarizationFailureNonFatal ==
    SummarizationFailed
        => /\ ai_summary = FallbackText
           /\ Exited => Attempted("review_write")

EffectOrder == <<"scanner", "summarize", "review_write", "scan_write">>

Rank(p) ==
    CASE p = "Start" -> 0
      [] p = "ScanRan" -> 1
      [] p = "Validated" -> 2
      [] p = "RequestBuilt" -> 3
      [] p = "Summarized" -> 4
      [] p = "ReviewPersisted" -> 5
      [] OTHER -> 6

\* the effects so far are a prefix of the fixed order, each once, and each
\* earlier one returned before the next: the scanner ran, the review write
\* succeeded (a failed summarization call is caught and the run goes on)
EffectsOrdered ==
    /\ Len(effects) <= Len(EffectOrder)
    /\ \A i \in 1..Len(effects) : effects[i].op = EffectOrder[i]
    /\ \A i \in 1..Len(effects) :
          (i < Len(effects) /\ effects[i].op # "summarize") => effects[i].ok
    /\ pc = "InvocationError" => Len(effects) = 1
    /\ pc = "ConfigError" => Len(effects) = 1
    /\ pc = "Crashed" => (Len(effects) = 1 \/ ~effects[Len(effects)].ok)
    /\ storage # {} => Attempted("review_write")

\* C5: the external effects occur in the order scanner, summarization call,
\* review write, scan write, each at most once and none before the earlier
\* ones returned; every step moves the run forward (no state is re-entered)
\* and no step follows an exit.
C5_EffectsInFixedOrder ==
    /\ []EffectsOrdered
    /\ [][pc \notin Terminal /\ Rank(pc') > Rank(pc)
          /\ Len(effects') <= Len(effects) + 1
          /\ SubSeq(effects', 1, Len(effects)) = effects]_vars

C5_Witness ==
    /\ pc = "Failed"
    /\ Len(effects) = 4
    /\ \A i \in 1..4 : effects[i].op = EffectOrder[i]

ReplyReceived == Printed("ai_response")

\* the reply's key holds a non-empty list whose first block has a text
HasTexts(reply, key) ==
    /\ key \in DOMAIN reply
    /\ "list" \in DOMAIN reply[key]
    /\ Len(reply[key].list) > 0
    /\ "text" \in DOMAIN reply[key].list[1]

FirstTextOf(reply, key) == Str(reply[key].list[1].text)

\* C6: normalization takes the first content block's text when content is a
\* sequence of text blocks, else the first output item's text when output
\* is a sequence of text items (also when content is present but is no
\* non-empty sequence of text blocks).
C6_NormalizationPriority ==
    ReplyReceived
        => IF HasTexts(response_body, "content")
           THEN ai_summary = FirstTextOf(response_body, "content")
           ELSE HasTexts(response_body, "output")
                    => ai_summary = FirstTextOf(response_body, "output")

\* C7: a received reply of neither recognized shape yields the serialized
\* raw reply, a non-empty text that is not the failure fallback.
C7_UnrecognizedReplySerialized ==
    (ReplyReceived /\ ~HasTexts(response_body, "content")
                   /\ ~HasTexts(response_body, "output"))
        => /\ ai_summary = JsonDumps(response_body)
           /\ ai_summary # << >>
           /\ ai_summary # FallbackText

RequestBuilt == condensed_findings # EmptyObj
DocViolations == Get(scan_results, "violations", << >>)
Min(a, b) == IF a < b THEN a ELSE b

\* C8: the violations of the request payload are the first min(10, n) of
\* the document's n violations, in scanner order, when n > 0, and the
\* "no violations" marker (never an empty sequence) when n = 0.
C8_PayloadViolations ==
    RequestBuilt
        => LET v == DocViolations
               sent == condensed_findings.violations
           IN  IF Len(v) > 0
               THEN /\ DOMAIN sent = {"list"}
                    /\ Len(sent.list) = Min(ViolationLimit, Len(v))
                    /\ \A i \in 1..Len(sent.list) : sent.list[i] = v[i]
               ELSE /\ DOMAIN sent = {"str"}
                    /\ sent.str = NoViolationsMarker

C8_Witness ==
    /\ RequestBuilt
    /\ Len(DocViolations) > ViolationLimit
    /\ Len(condensed_findings.violations.list) = ViolationLimit
    /\ condensed_findings.violations.list[ViolationLimit] = DocViolations[ViolationLimit]

\* C9: the scan_summary of the condensed findings is the document's
\* results.scan_summary, the mapping main reads violated_policies from.
C9_SummaryCopiedVerbatim ==
    RequestBuilt => condensed_findings.scan_summary = ScanSummary(scan_results)

\* the scanner could not be launched, or its output did not parse to a
\* document
ScannerFailed ==
    \/ Effect("scanner", FALSE) \in Range(effects)
    \/ Printed("error_terrascan")
    \/ Line("traceback", <<"scan_results.get">>) \in Range(console)

\* C10: when the scanner cannot be launched or its output cannot be parsed,
\* the process exits at once with a non-zero status: no validation, no
\* summarization call, no artifact write.
C10_InvocationFailureIsFatal ==
    ScannerFailed
        => /\ Exited /\ exit_code # 0
           /\ Len(effects) = 1
           /\ ~Printed("step2") /\ ~Printed("error")
           /\ condensed_findings = EmptyObj
           /\ ai_summary = << >>
           /\ storage = {}

C10_Witness ==
    /\ pc = "InvocationError"
    /\ Printed("error_terrascan")
    /\ exit_code = 1
    /\ storage = {}

---------------------------------------------------------------------------
WriteFailed(op) == Effect(op, FALSE) \in Range(effects)

\* C11: a failed artifact write ends the run with a non-zero exit code: after
\* a failed review write no scan write is attempted and the run never exits
\* 0; after a failed scan write the run exits non-zero; a run that completes
\* successfully has no failed write behind it.
C11_WriteFailureIsFatal ==
    /\ WriteFailed("review_write")
           => (pc = "Crashed" /\ exit_code = 1 /\ ~Attempted("scan_write"))
    /\ WriteFailed("scan_write") => (pc = "Crashed" /\ exit_code = 1)
    /\ (exit_code = 0 \/ pc \in {"Passed", "Failed"})
           => (~WriteFailed("review_write") /\ ~WriteFailed("scan_write"))

C11_Witness ==
    /\ WriteFailed("review_write")
    /\ pc = "Crashed" /\ exit_code = 1
    /\ storage # {}

Persisted(prefix) == { a \in storage : a.complete /\ a.place.name.prefix = prefix }
InBucket(a) == "bucket" \in DOMAIN a.place

\* C13: whenever both artifacts are persisted, the scan artifact's name and
\* date partition carry the timestamp of the review artifact's, both are in
\* the same sink (both local, or both in the same bucket), and in a bucket
\* the review key is under reviews/Y/M/D/ and the scan key under scans/Y/M/D/
\* of that timestamp.
C13_OneTimestampOneSink ==
    \A r \in Persisted("review"), s \in Persisted("scan") :
        /\ r.place.name.stamp = s.place.name.stamp
        /\ r.place.name.stamp = Stamp(now)
        /\ InBucket(r) = InBucket(s)
        /\ InBucket(r)
             => /\ r.place.bucket = bucket /\ s.place.bucket = bucket
                /\ r.place.folder = [partition |-> "reviews",
                                     ymd |-> r.place.name.stamp.ymd]
                /\ s.place.folder = [partition |-> "scans",
                                     ymd |-> r.place.name.stamp.ymd]

C13_Witness ==
    /\ pc = "Failed"
    /\ Truthy(bucket)
    /\ Persisted("review") # {} /\ Persisted("scan") # {}
    /\ now = MaxTime

\* C14: when violated_policies (or the whole scan_summary) is absent, and
\* there is no terraform scan error and no write failure, the run persists
\* the review artifact, persists no scan artifact and exits 0.
C14_AbsentCountPasses ==
    (/\ Exited /\ ~ScannerFailed
     /\ "violated_policies" \notin DOMAIN ScanSummary(scan_results)
     /\ ~HasTerraformEntry(scan_results)
     /\ ~WriteFailed("review_write") /\ ~WriteFailed("scan_write"))
        => /\ pc = "Passed" /\ exit_code = 0
           /\ ReviewPersisted
           /\ ScanFiles = {}

HoldsMarker(condensed) == "str" \in DOMAIN condensed.violations

\* C16: condensing the same document again gives the same result, and
\* condensing an already condensed result (also one holding the "no
\* violations" marker) returns it unchanged.
C16_CondensationIdempotent ==
    RequestBuilt
        => /\ Condense(scan_results) = condensed_findings
           /\ CondenseAgain(condensed_findings) = condensed_findings

\* the document with its violations field present and empty
WithEmptyViolations(doc) ==
    [k \in DOMAIN doc \cup {"violations"} |->
        IF k = "violations" THEN << >> ELSE doc[k]]

\* C18: the payload for a document whose violations field is present and
\* empty differs from the payload for a document whose violations field is
\* absent.
C18_MarkerDistinguishesOmitted ==
    (RequestBuilt /\ "violations" \notin DOMAIN scan_results)
        => condensed_findings # Condense(WithEmptyViolations(scan_results))

\* a line the program prints in its error colour (lines 25, 75, 99, 135),
\* whatever it is about; the interpreter's traceback is none
MarkedErrorPrinted ==
    \/ Printed("error_terrascan")
    \/ Printed("error_ai")
    \/ Printed("error")
    \/ Printed("fail")

FatallyTerminated ==
    \/ pc \in {"InvocationError", "ConfigError"}
    \/ WriteFailed("review_write")
    \/ WriteFailed("scan_write")

\* C19: every fatal termination (invocation failure, terraform scan error,
\* failed review write, failed scan write) comes after a marked error
\* message of the program, and every run that completes normally has
\* printed the whole SummaryText.
C19_FatalAfterMarkedMessage ==
    /\ FatallyTerminated => MarkedErrorPrinted
    /\ pc \in {"Passed", "Failed"}
           => Line("final_review", ai_summary) \in Range(console)

SecondRun == "fixed" \in DOMAIN first_run
IsPrefix(s, t) == Len(s) <= Len(t) /\ SubSeq(t, 1, Len(s)) = s

\* C12: two runs over the same ScanDocument and destination that differ only
\* in how the summarization ended (any reply, an unreadable one, a failure)
\* exit with the same code and have persisted the same kinds of artifact.
C12_SummaryOutcomeIrrelevant ==
    (SecondRun /\ Exited)
        => /\ exit_code = first_run.exit_code
           /\ ArtifactKinds(storage) = first_run.kinds

\* C15: a second run whose scanner prints the same output but ends with
\* another exit code goes the way of the first (same calls, same lines
\* printed, in the same order) and ends at the same place with the same
\* files and the same exit code.
C15_ScannerExitCodeUnused ==
    SecondRun
        => /\ IsPrefix(effects, first_run.effects)
           /\ IsPrefix(console, first_run.console)
           /\ Exited => /\ pc = first_run.pc
                        /\ exit_code = first_run.exit_code
                        /\ storage = first_run.storage
                        /\ effects = first_run.effects
                        /\ console = first_run.console

C15_Witness ==
    /\ SecondRun
    /\ pc = "Failed"
    /\ scanner_exit # first_run.scanner_exit
    /\ scanner_exit # 0
    /\ ScanPersisted
    /\ storage = first_run.storage

\* the scanner's output has been parsed to a document
Parsed == "scanner" \in DOMAIN env /\ env.scanner.kind = "object"

\* C17: once parsed, scan_results stays the document as parsed, through
\* condensation and summarization, and a persisted scan artifact is the
\* serialization of that whole document, violations beyond the first 10
\* included.
C17_ScanDocumentNeverMutated ==
    Parsed
        => /\ scan_results = env.scanner.json
           /\ \A a \in Persisted("scan") : a.body = [json |-> env.scanner.json]

C17_Witness ==
    /\ Parsed
    /\ pc = "Failed"
    /\ ~HoldsMarker(condensed_findings)
    /\ Len(condensed_findings.violations.list) = ViolationLimit
    /\ \E a \in Persisted("scan") :
          Len(Get(a.body.json, "violations", << >>)) > ViolationLimit

===========================================================================
